---- MODULE Spec2Model ----
(***************************************************************************)
(* hid-impostor: a model of src/main.rs.                                   *)
(*                                                                         *)
(* main() opens a physical evdev device, creates a virtual uinput device,  *)
(* parses the -m mapping string and then loops for ever: it fetches a      *)
(* batch of events and, for every absolute-axis event whose axis the       *)
(* physical device reports, emits one (possibly retargeted, possibly       *)
(* inverted) absolute-axis event on the virtual device.                    *)
(*                                                                         *)
(* Strings are sequences of tokens: a token is one of the separator        *)
(* characters "," "=" "-" or an axis name; a run of name tokens is the     *)
(* concatenation of their letters.  Values are Rust i32.                   *)
(***************************************************************************)
EXTENDS Integers, Sequences, FiniteSets, TLC

VARIABLES
    args_mappings,   \* args.mappings, the -m string (main.rs:18)
    overflow_checks, \* build profile: TRUE = debug (overflow panics), FALSE = release (wraps)
    device_absinfo,  \* what device.get_absinfo() reports: code -> AbsInfo
    device,          \* "closed", or "open" once Device::open has succeeded (main.rs:49)
    virt_device,     \* the virtual devices created so far, each its declaration (main.rs:52)
    mappings,        \* the HashMap returned by parse_mappings (main.rs:57)
    abs_infos,       \* the HashMap returned by abs_infos (main.rs:58)
    pc,              \* position in main
    result,          \* "running", or how main ended
    batch,           \* events of the current fetch_events iterator not yet visited
    fetched,         \* outcome of the latest fetch_events call: "none" | "events" | "empty" | "err"
    polls,           \* number of fetch_events calls made
    received,        \* every event the for loop has visited, in order
    emitted          \* every event handed to virt_device.emit, in order

vars == <<args_mappings, overflow_checks, device_absinfo, device, virt_device,
          mappings, abs_infos, pc, result, batch, fetched, polls, received, emitted>>

----------------------------------------------------------------------------
(* Bounds of the model *)

\* events the for loop visits in one run
MaxEvents == 3
\* fetch_events calls in one run
MaxPolls == 2
\* tokens of a generated mapping string
MaxLen == 7

----------------------------------------------------------------------------
(* i32 arithmetic (main.rs:75).  TLC's integers are themselves 32 bits wide *)
(* and refuse to overflow, so the wrapped results are computed piecewise.   *)

MaxI32 == 2147483647
MinI32 == -MaxI32 - 1

AddOverflows(a, b) ==
    \/ b > 0 /\ a > MaxI32 - b
    \/ b < 0 /\ a < MinI32 - b

SubOverflows(a, b) ==
    \/ b < 0 /\ a > MaxI32 + b
    \/ b > 0 /\ a < MinI32 + b

\* a + b modulo 2^32, as a signed value
WrapAdd(a, b) ==
    IF ~AddOverflows(a, b) THEN a + b
    ELSE IF b > 0 THEN (a + MinI32) + (b + MinI32)
    ELSE (a - MinI32) + (b - MinI32)

\* a - b modulo 2^32, as a signed value
WrapSub(a, b) ==
    IF ~SubOverflows(a, b) THEN a - b
    ELSE IF b < 0 THEN (a + MinI32) + (MinI32 - b)
    ELSE (a - MinI32) - (b + MinI32)

----------------------------------------------------------------------------
(* evdev codes used by the program *)

ABS_X == 0
ABS_Y == 1
ABS_Z == 2
ABS_RX == 3
ABS_RY == 4
ABS_RZ == 5
\* the code after ABS_RZ in evdev's enumeration
ABS_THROTTLE == ABS_RZ + 1
ABS_HAT0X == 16
ABS_HAT0Y == 17
BTN_SOUTH == 304

\* <AbsoluteAxisCode as FromStr>: the canonical names and their codes
AxisCodeOf ==
    [n \in {"ABS_X", "ABS_Y", "ABS_Z", "ABS_RX", "ABS_RY", "ABS_RZ",
            "ABS_THROTTLE", "ABS_HAT0X", "ABS_HAT0Y"} |->
        CASE n = "ABS_X" -> ABS_X
          [] n = "ABS_Y" -> ABS_Y
          [] n = "ABS_Z" -> ABS_Z
          [] n = "ABS_RX" -> ABS_RX
          [] n = "ABS_RY" -> ABS_RY
          [] n = "ABS_RZ" -> ABS_RZ
          [] n = "ABS_THROTTLE" -> ABS_THROTTLE
          [] n = "ABS_HAT0X" -> ABS_HAT0X
          [] n = "ABS_HAT0Y" -> ABS_HAT0Y]

\* Result<T>
Ok(v) == [ok |-> TRUE, val |-> v]
Err(e) == [ok |-> FALSE, err |-> e]

----------------------------------------------------------------------------
(* Mapping (main.rs:21-41) *)

\* Mapping::from_abs
from_abs(code) == [to_code |-> code, invert |-> FALSE]

\* from_abs_inv with the flag of from_abs
from_abs_inv_uninverted(code) == [to_code |-> code, invert |-> FALSE]

\* Mapping::from_abs_inv
from_abs_inv(code) == [to_code |-> code, invert |-> TRUE]

----------------------------------------------------------------------------
(* The mapping-string parser (main.rs:150-175) *)

\* index of the first occurrence of sep in s, 0 when there is none
RECURSIVE FirstIndex(_, _, _)
FirstIndex(s, sep, i) ==
    IF i > Len(s) THEN 0
    ELSE IF s[i] = sep THEN i
    ELSE FirstIndex(s, sep, i + 1)

\* str::split(sep): the pieces between the separators; n separators give
\* n + 1 pieces, so the empty string gives one empty piece
RECURSIVE Split(_, _)
Split(s, sep) ==
    LET i == FirstIndex(s, sep, 1) IN
    IF i = 0 THEN <<s>>
    ELSE <<SubSeq(s, 1, i - 1)>> \o Split(SubSeq(s, i + 1, Len(s)), sep)

\* <AbsoluteAxisCode as FromStr>::from_str: the text must be exactly one
\* canonical axis name
from_str(text) ==
    IF Len(text) = 1 /\ text[1] \in DOMAIN AxisCodeOf
    THEN Ok(AxisCodeOf[text[1]])
    ELSE Err("unknown axis")

\* the inner match of parse_mapping, on the right operand (main.rs:154-164)
parse_right(r_op) ==
    LET parts == Split(r_op, "-") IN
    IF Len(parts) = 1 THEN
        LET c == from_str(parts[1]) IN
        IF c.ok THEN Ok(from_abs(c.val)) ELSE c
    ELSE IF Len(parts) = 2 THEN
        LET c == from_str(parts[2]) IN
        IF c.ok THEN Ok(from_abs_inv(c.val)) ELSE c
    ELSE Err("cannot parse right operand")

\* a parse_mapping that reads the first two pieces and ignores further "="
parse_mapping_lenient(input) ==
    LET parts == Split(input, "=") IN
    IF Len(parts) >= 2 THEN
        LET l_op == from_str(parts[1]) IN
        IF ~l_op.ok THEN l_op
        ELSE LET mapping == parse_right(parts[2]) IN
             IF mapping.ok THEN Ok(<<l_op.val, mapping.val>>) ELSE mapping
    ELSE Err("cannot parse mapping")

\* parse_mapping: Ok(<<source code, Mapping>>) or Err
parse_mapping(input) ==
    LET parts == Split(input, "=") IN
    IF Len(parts) = 2 THEN
        LET l_op == from_str(parts[1]) IN
        IF ~l_op.ok THEN l_op
        ELSE LET mapping == parse_right(parts[2]) IN
             IF mapping.ok THEN Ok(<<l_op.val, mapping.val>>) ELSE mapping
    ELSE Err("cannot parse mapping")

\* an insert that keeps the entry a key already has
Insert_keep_first(m, k, v) ==
    [x \in DOMAIN m \cup {k} |-> IF x \in DOMAIN m THEN m[x] ELSE v]

\* HashMap::insert
Insert(m, k, v) == [x \in DOMAIN m \cup {k} |-> IF x = k THEN v ELSE m[x]]

EmptyMap == [x \in {} |-> 0]

\* a collect that drops the rules that fail to parse
RECURSIVE Collect_skip_invalid(_, _)
Collect_skip_invalid(rules, acc) ==
    IF rules = <<>> THEN Ok(acc)
    ELSE LET r == parse_mapping(Head(rules)) IN
         IF ~r.ok THEN Collect_skip_invalid(Tail(rules), acc)
         ELSE Collect_skip_invalid(Tail(rules), Insert(acc, r.val[1], r.val[2]))

\* collect::<Result<HashMap<_, _>>>: stops at the first Err, later pairs
\* overwrite earlier ones
RECURSIVE Collect(_, _)
Collect(rules, acc) ==
    IF rules = <<>> THEN Ok(acc)
    ELSE LET r == parse_mapping(Head(rules)) IN
         IF ~r.ok THEN r
         ELSE Collect(Tail(rules), Insert(acc, r.val[1], r.val[2]))

\* parse_mappings
parse_mappings(input) == Collect(Split(input, ","), EmptyMap)

----------------------------------------------------------------------------
(* Axis capabilities and the virtual device (main.rs:92-148) *)

\* AbsInfo::new(value, minimum, maximum, fuzz, flat, resolution)
AbsInfoNew(value, minimum, maximum, fuzz, flat, resolution) ==
    [value |-> value, minimum |-> minimum, maximum |-> maximum,
     fuzz |-> fuzz, flat |-> flat, resolution |-> resolution]

\* an abs_infos that copies the device's infos whole, fuzz and flat included
get_abs_infos_verbatim(absinfo) ==
    [code \in DOMAIN absinfo |->
        AbsInfoNew(absinfo[code].value, absinfo[code].minimum,
                   absinfo[code].maximum, absinfo[code].fuzz,
                   absinfo[code].flat, absinfo[code].resolution)]

\* abs_infos(device), when device.get_absinfo() succeeds
get_abs_infos(absinfo) ==
    [code \in DOMAIN absinfo |->
        AbsInfoNew(absinfo[code].value, absinfo[code].minimum,
                   absinfo[code].maximum, 0, 0, absinfo[code].resolution)]

\* abs_setup(code, abs_infos): the UinputAbsSetup of one output axis
abs_setup(code, infos) ==
    LET axis_max == 256
        default_info == AbsInfoNew(axis_max \div 2, 0, axis_max, 0, 0, 1)
        info == IF code \in DOMAIN infos THEN infos[code] ELSE default_info
    IN  [code |-> code, info |-> info]

\* the axes make_virt_device declares (main.rs:116-123)
OutputAxes == {ABS_X, ABS_Y, ABS_Z, ABS_RX, ABS_RY, ABS_RZ, ABS_HAT0X, ABS_HAT0Y}

\* the keys make_virt_device declares (main.rs:96-108): BTN_SOUTH, BTN_EAST,
\* BTN_NORTH, BTN_WEST, BTN_TL, BTN_TR, BTN_SELECT, BTN_START, BTN_MODE,
\* BTN_THUMBL, BTN_THUMBR
VirtKeys == {BTN_SOUTH, 305, 307, 308, 310, 311, 314, 315, 316, 317, 318}

\* make_virt_device(device), when every call in it succeeds: the declaration
\* of the virtual device it builds
make_virt_device(absinfo) ==
    LET infos == get_abs_infos(absinfo) IN
    [name |-> "Microsoft X-Box 360 pad",
     keys |-> VirtKeys,
     axes |-> [code \in OutputAxes |-> abs_setup(code, infos).info]]

----------------------------------------------------------------------------
(* The per-event translation (main.rs:66-83) *)

\* a lookup that falls back to abs_setup's default_info
AbsInfoGet_or_default(infos, code) ==
    IF code \in DOMAIN infos THEN <<infos[code]>>
    ELSE <<AbsInfoNew(128, 0, 256, 0, 0, 1)>>

\* abs_infos.get(&code): <<info>> for Some(info), <<>> for None
AbsInfoGet(infos, code) ==
    IF code \in DOMAIN infos THEN <<infos[code]>> ELSE <<>>

\* mappings.get(&code).copied().unwrap_or(Mapping::from_abs(code))
GetMapping(maps, code) ==
    IF code \in DOMAIN maps THEN maps[code] ELSE from_abs(code)

\* does the value computation overflow i32 (main.rs:75)?
ValueOverflows(mapping, abs_info, value) ==
    /\ mapping.invert
    /\ \/ SubOverflows(abs_info.maximum, value)
       \/ AddOverflows(abs_info.minimum, WrapSub(abs_info.maximum, value))

\* the value the event is given (main.rs:74-78), in wrapping arithmetic
OutValue(mapping, abs_info, value) ==
    IF mapping.invert
    THEN WrapAdd(abs_info.minimum, WrapSub(abs_info.maximum, value))
    ELSE value

\* AbsoluteAxisEvent::new(AbsoluteAxisCode(mapping.to_code), value)
AbsoluteAxisEvent(code, value) == [kind |-> "abs", code |-> code, value |-> value]

\* the event main builds for an absolute-axis event whose axis has abs_info
virt_ev(maps, abs_info, code, value) ==
    LET mapping == GetMapping(maps, code) IN
    AbsoluteAxisEvent(mapping.to_code, OutValue(mapping, abs_info, value))

\* an emit that overtakes the earlier events
EmitFirst(log, ev) == <<ev>> \o log

\* virt_device.emit(&[virt_ev]): the sink is handed the event after all
\* earlier ones
Emit(log, ev) == Append(log, ev)

\* where main is after the event at the head of the batch: the for loop goes
\* on, or the batch is exhausted and the loop polls again
NextPc(rest) == IF rest = <<>> THEN "fetch" ELSE "for"

----------------------------------------------------------------------------
(* The inputs of a run *)

\* physical devices, neither of which reports ABS_THROTTLE: a pad with an
\* 8-bit stick and a full-range axis, and a pad with one 16-bit stick
Pad8 ==
    (ABS_X :> [value |-> 128, minimum |-> 0, maximum |-> 255,
               fuzz |-> 3, flat |-> 15, resolution |-> 1]) @@
    (ABS_Z :> [value |-> 0, minimum |-> MinI32, maximum |-> MaxI32,
               fuzz |-> 0, flat |-> 0, resolution |-> 0])

Pad16 ==
    (ABS_X :> [value |-> 0, minimum |-> -32768, maximum |-> 32767,
               fuzz |-> 16, flat |-> 128, resolution |-> 0])

PhysTables == {Pad8, Pad16}

\* -m strings of a run of main: the string of the unit test, one that swaps
\* and inverts two axes, one that retargets to an axis the virtual device
\* does not declare, the empty string, a rule without "=", and a valid rule
\* followed by an invalid one
TestInput == <<"ABS_X", "=", "-", "ABS_X", ",", "ABS_Z", "=", "ABS_RX">>

MainMappings ==
    { TestInput,
      <<"ABS_X", "=", "-", "ABS_Z", ",", "ABS_Z", "=", "-", "ABS_X">>,
      <<"ABS_X", "=", "ABS_THROTTLE">>,
      <<>>,
      <<"ABS_X", "-", "ABS_Y">>,
      <<"ABS_X", "=", "ABS_Z", ",", "ABS_Z">> }

\* the tokens generated mapping strings are made of
ParseAlphabet == {"ABS_X", "ABS_Z", "=", "-", ","}

\* every string of at most MaxLen tokens, and the string of the unit test
ParseInputs ==
    UNION {[1..n -> ParseAlphabet] : n \in 0..MaxLen} \cup {TestInput}

\* the events a poll can deliver
RawValues == {MinI32, 10}

Events ==
    {[kind |-> "sync", code |-> 0, value |-> 0],
     [kind |-> "other", code |-> 0, value |-> 0],
     [kind |-> "key", code |-> BTN_SOUTH, value |-> 1]}
    \cup {[kind |-> "abs", code |-> c, value |-> v] :
             c \in {ABS_X, ABS_Z}, v \in RawValues}
    \cup {[kind |-> "abs", code |-> ABS_THROTTLE, value |-> 10]}

Batches(n) == UNION {[1..k -> Events] : k \in 0..n}

----------------------------------------------------------------------------
(* main (main.rs:43-90) *)

Init ==
    /\ args_mappings \in MainMappings
    /\ overflow_checks \in BOOLEAN
    /\ device_absinfo \in PhysTables
    /\ device = "closed"
    /\ virt_device = <<>>
    /\ mappings = EmptyMap
    /\ abs_infos = EmptyMap
    /\ pc = "canonicalize"
    /\ result = "running"
    /\ batch = <<>>
    /\ fetched = "none"
    /\ polls = 0
    /\ received = <<>>
    /\ emitted = <<>>

\* a `?` that returns the error from main
Return(why) ==
    /\ pc' = "done"
    /\ result' = why
    /\ UNCHANGED <<args_mappings, overflow_checks, device_absinfo, device, virt_device,
                   mappings, abs_infos, batch, fetched, polls, received, emitted>>

\* a startup call that succeeds and leaves main's variables alone
Goto(to) ==
    /\ pc' = to
    /\ UNCHANGED <<args_mappings, overflow_checks, device_absinfo, device, virt_device,
                   mappings, abs_infos, result, batch, fetched, polls, received, emitted>>

\* canonicalize(&args.path) (main.rs:46)
Canonicalize ==
    /\ pc = "canonicalize"
    /\ Goto("open")

CanonicalizeErr ==
    /\ pc = "canonicalize"
    /\ Return("no device")

\* Device::open(path)? (main.rs:49)
DeviceOpen ==
    /\ pc = "open"
    /\ device' = "open"
    /\ pc' = "make_virt_device"
    /\ UNCHANGED <<args_mappings, overflow_checks, device_absinfo, virt_device,
                   mappings, abs_infos, result, batch, fetched, polls, received, emitted>>
DeviceOpenErr ==
    /\ pc = "open"
    /\ Return("open error")

\* a startup that goes on without creating the virtual device
MakeVirtDevice_skipped ==
    /\ pc = "make_virt_device"
    /\ pc' = "enumerate"
    /\ UNCHANGED <<args_mappings, overflow_checks, device_absinfo, device, virt_device,
                   mappings, abs_infos, result, batch, fetched, polls, received, emitted>>

\* make_virt_device(&device)? (main.rs:52)
MakeVirtDevice ==
    /\ pc = "make_virt_device"
    /\ virt_device' = Append(virt_device, make_virt_device(device_absinfo))
    /\ pc' = "enumerate"
    /\ UNCHANGED <<args_mappings, overflow_checks, device_absinfo, device,
                   mappings, abs_infos, result, batch, fetched, polls, received, emitted>>
MakeVirtDeviceErr ==
    /\ pc = "make_virt_device"
    /\ Return("create error")

\* virt_device.enumerate_dev_nodes_blocking()? (main.rs:53-55)
EnumerateDevNodes ==
    /\ pc = "enumerate"
    /\ Goto("parse_mappings")

EnumerateDevNodesErr ==
    /\ pc = "enumerate"
    /\ Return("enumerate error")

\* parse_mappings(&args.mappings).context("")? (main.rs:57)
ParseMappings ==
    /\ pc = "parse_mappings"
    /\ parse_mappings(args_mappings).ok
    /\ mappings' = parse_mappings(args_mappings).val
    /\ pc' = "abs_infos"
    /\ UNCHANGED <<args_mappings, overflow_checks, device_absinfo, device, virt_device,
                   abs_infos, result, batch, fetched, polls, received, emitted>>
ParseMappingsErr ==
    /\ pc = "parse_mappings"
    /\ ~parse_mappings(args_mappings).ok
    /\ Return(parse_mappings(args_mappings).err)

\* abs_infos(&device)? (main.rs:58)
AbsInfos ==
    /\ pc = "abs_infos"
    /\ abs_infos' = get_abs_infos(device_absinfo)
    /\ pc' = "fetch"
    /\ UNCHANGED <<args_mappings, overflow_checks, device_absinfo, device, virt_device,
                   mappings, result, batch, fetched, polls, received, emitted>>
AbsInfosErr ==
    /\ pc = "abs_infos"
    /\ Return("absinfo error")

----------------------------------------------------------------------------
(* The event loop (main.rs:59-89) *)

\* a fetch that takes an empty batch for the end of the stream and returns Ok
FetchEvents_eof ==
    /\ pc = "fetch"
    /\ polls < MaxPolls
    /\ \E b \in Batches(MaxEvents - Len(received)) :
        /\ batch' = b
        /\ fetched' = IF b = <<>> THEN "empty" ELSE "events"
        /\ pc' = IF b = <<>> THEN "done" ELSE "for"
        /\ result' = IF b = <<>> THEN "ok" ELSE result
    /\ polls' = polls + 1
    /\ UNCHANGED <<args_mappings, overflow_checks, device_absinfo, device, virt_device,
                   mappings, abs_infos, received, emitted>>

\* device.fetch_events()? returns a batch, which may hold no event (main.rs:60)
FetchEvents ==
    /\ pc = "fetch"
    /\ polls < MaxPolls
    /\ \E b \in Batches(MaxEvents - Len(received)) :
        /\ batch' = b
        /\ fetched' = IF b = <<>> THEN "empty" ELSE "events"
        /\ pc' = NextPc(b)
    /\ polls' = polls + 1
    /\ UNCHANGED <<args_mappings, overflow_checks, device_absinfo, device, virt_device,
                   mappings, abs_infos, result, received, emitted>>

\* a read error that is dropped: the loop polls again
FetchEventsErr_retry ==
    /\ pc = "fetch"
    /\ polls < MaxPolls
    /\ fetched' = "err"
    /\ polls' = polls + 1
    /\ UNCHANGED <<args_mappings, overflow_checks, device_absinfo, device, virt_device,
                   mappings, abs_infos, pc, result, batch, received, emitted>>

\* device.fetch_events()? returns an error, which `?` returns from main
FetchEventsErr ==
    /\ pc = "fetch"
    /\ polls < MaxPolls
    /\ fetched' = "err"
    /\ polls' = polls + 1
    /\ pc' = "done"
    /\ result' = "read error"
    /\ UNCHANGED <<args_mappings, overflow_checks, device_absinfo, device, virt_device,
                   mappings, abs_infos, batch, received, emitted>>

\* the for loop takes the next event of the batch
Visit(kind) ==
    /\ pc = "for"
    /\ batch # <<>>
    /\ Head(batch).kind = kind
    /\ received' = Append(received, Head(batch))
    /\ batch' = Tail(batch)
    /\ UNCHANGED <<args_mappings, overflow_checks, device_absinfo, device, virt_device,
                   mappings, abs_infos, fetched, polls>>

\* Synchronization(..) => continue (main.rs:62)
HandleSynchronization ==
    /\ Visit("sync")
    /\ pc' = NextPc(Tail(batch))
    /\ UNCHANGED <<result, emitted>>

\* Key(key_event, key_code, _) => println! (main.rs:63-65): the event is
\* printed and nothing else is done with it
HandleKey ==
    /\ Visit("key")
    /\ pc' = NextPc(Tail(batch))
    /\ UNCHANGED <<result, emitted>>

\* an arm that forwards the event after printing it
HandleOther_forwarded ==
    /\ Visit("other")
    /\ emitted' = Emit(emitted, Head(batch))
    /\ pc' = NextPc(Tail(batch))
    /\ UNCHANGED result

\* _ => println!("other ...") (main.rs:84-86)
HandleOther ==
    /\ Visit("other")
    /\ pc' = NextPc(Tail(batch))
    /\ UNCHANGED <<result, emitted>>

\* AbsoluteAxis(event, code, value) with abs_infos.get(&code) = None (main.rs:67)
AbsoluteAxisNoInfo ==
    /\ Visit("abs")
    /\ AbsInfoGet(abs_infos, Head(batch).code) = <<>>
    /\ pc' = NextPc(Tail(batch))
    /\ UNCHANGED <<result, emitted>>

\* the inverted value overflows in a build with overflow checks: the
\* arithmetic of main.rs:75 panics
AbsoluteAxisPanic ==
    /\ Visit("abs")
    /\ AbsInfoGet(abs_infos, Head(batch).code) # <<>>
    /\ LET ev == Head(batch)
           abs_info == AbsInfoGet(abs_infos, ev.code)[1]
       IN  /\ overflow_checks
           /\ ValueOverflows(GetMapping(mappings, ev.code), abs_info, ev.value)
    /\ pc' = "done"
    /\ result' = "panic"
    /\ UNCHANGED emitted

\* the value was computed: is the event handed to virt_device.emit?
Emits ==
    /\ Visit("abs")
    /\ AbsInfoGet(abs_infos, Head(batch).code) # <<>>
    /\ LET ev == Head(batch)
           abs_info == AbsInfoGet(abs_infos, ev.code)[1]
       IN  /\ ~(overflow_checks
                /\ ValueOverflows(GetMapping(mappings, ev.code), abs_info, ev.value))
           /\ emitted' = Emit(emitted, virt_ev(mappings, abs_info, ev.code, ev.value))

\* virt_device.emit(&[virt_ev])? succeeds (main.rs:81)
AbsoluteAxisEmit ==
    /\ Emits
    /\ pc' = NextPc(Tail(batch))
    /\ UNCHANGED result

\* an emit error that is noted but not returned
AbsoluteAxisEmitErr_ignored ==
    /\ Emits
    /\ pc' = NextPc(Tail(batch))
    /\ result' = "emit error"

\* virt_device.emit(&[virt_ev])? fails, and `?` returns the error from main
AbsoluteAxisEmitErr ==
    /\ Emits
    /\ pc' = "done"
    /\ result' = "emit error"

Next ==
    \/ Canonicalize \/ CanonicalizeErr
    \/ DeviceOpen \/ DeviceOpenErr
    \/ MakeVirtDevice \/ MakeVirtDeviceErr
    \/ EnumerateDevNodes \/ EnumerateDevNodesErr
    \/ ParseMappings \/ ParseMappingsErr
    \/ AbsInfos \/ AbsInfosErr
    \/ FetchEvents \/ FetchEventsErr
    \/ HandleSynchronization \/ HandleKey \/ HandleOther
    \/ AbsoluteAxisNoInfo \/ AbsoluteAxisPanic
    \/ AbsoluteAxisEmit \/ AbsoluteAxisEmitErr

Spec == Init /\ [][Next]_vars

----------------------------------------------------------------------------
(* The parser alone: main at main.rs:57, for every generated -m string *)

InitParse ==
    /\ args_mappings \in ParseInputs
    /\ overflow_checks = TRUE
    /\ device_absinfo = Pad8
    /\ device = "open"
    /\ virt_device = <<make_virt_device(device_absinfo)>>
    /\ mappings = EmptyMap
    /\ abs_infos = EmptyMap
    /\ pc = "parse_mappings"
    /\ result = "running"
    /\ batch = <<>>
    /\ fetched = "none"
    /\ polls = 0
    /\ received = <<>>
    /\ emitted = <<>>

NextParse == ParseMappings \/ ParseMappingsErr

SpecParse == InitParse /\ [][NextParse]_vars

\* ---- the inversion applied twice ----

\* how many values at each end of a range, and around zero, are tried
MaxEdge == 40

\* <<minimum, maximum>> of the ABS_X axis as get_absinfo reports it: an 8-bit
\* and a 16-bit stick, the full i32 range, its two halves and a single point
InvertSpans ==
    {<<0, 255>>, <<-32768, 32767>>, <<MinI32, MaxI32>>, <<0, MaxI32>>,
     <<MinI32, -1>>, <<7, 7>>}

\* raw values inside [m, M]: both ends of the range and the values around zero
InvertValues(m, M) ==
    {v \in {m + k : k \in 0..MaxEdge} \cup {M - k : k \in 0..MaxEdge}
            \cup ((-MaxEdge)..MaxEdge) :
        m <= v /\ v <= M}

\* a physical device with the single axis ABS_X of range [m, M]
InvertTable(m, M) ==
    ABS_X :> [value |-> m, minimum |-> m, maximum |-> M,
              fuzz |-> 0, flat |-> 0, resolution |-> 0]

\* main started with -m "ABS_X=-ABS_X" is in its event loop with one event of
\* ABS_X, whose value lies in the axis range, fetched and not yet handled
InitInvert ==
    /\ args_mappings = <<"ABS_X", "=", "-", "ABS_X">>
    /\ overflow_checks \in BOOLEAN
    /\ \E span \in InvertSpans :
        /\ device_absinfo = InvertTable(span[1], span[2])
        /\ \E v \in InvertValues(span[1], span[2]) :
            batch = <<AbsoluteAxisEvent(ABS_X, v)>>
    /\ device = "open"
    /\ virt_device = <<make_virt_device(device_absinfo)>>
    /\ mappings = parse_mappings(args_mappings).val
    /\ abs_infos = get_abs_infos(device_absinfo)
    /\ pc = "for"
    /\ result = "running"
    /\ fetched = "events"
    /\ polls = 1
    /\ received = <<>>
    /\ emitted = <<>>

\* device.fetch_events() delivers the event the virtual device was handed:
\* the inverted value is the next raw value of the same axis
FetchEcho ==
    /\ pc = "fetch"
    /\ Len(received) = 1
    /\ Len(emitted) = 1
    /\ batch' = <<emitted[1]>>
    /\ fetched' = "events"
    /\ pc' = NextPc(batch')
    /\ polls' = polls + 1
    /\ UNCHANGED <<args_mappings, overflow_checks, device_absinfo, device, virt_device,
                   mappings, abs_infos, result, received, emitted>>

NextInvert == AbsoluteAxisEmit \/ AbsoluteAxisPanic \/ FetchEcho

SpecInvert == InitInvert /\ [][NextInvert]_vars

----------------------------------------------------------------------------
(* The claims *)

Last(s) == s[Len(s)]

\* the for loop is about to visit an event of this kind
Visiting(kind) == pc = "for" /\ batch # <<>> /\ Head(batch).kind = kind

\* a + b as an unbounded integer, in two limbs: 2 * t[1] + t[2] with t[2] in 0..1
MathSum(a, b) ==
    LET low == (a % 2) + (b % 2) IN
    <<(a \div 2) + (b \div 2) + (low \div 2), low % 2>>

\* the Mapping Entry of a code: the rule's, or the identity when no rule names it
EntryOf(code) ==
    IF code \in DOMAIN mappings THEN mappings[code]
    ELSE [to_code |-> code, invert |-> FALSE]

\* C1: every absolute-axis event whose code has an entry in the capability
\* table makes the translator hand exactly one event to the sink, on the
\* target axis of the code's Mapping Entry, with value
\* info.minimum + (info.maximum - raw_value) when the entry is inverted and
\* raw_value otherwise, info being the entry of the source axis.
C1_AxisEventTranslated ==
    [][(Visiting("abs") /\ Head(batch).code \in DOMAIN abs_infos) =>
        LET ev == Head(batch)
            info == abs_infos[ev.code]
            entry == EntryOf(ev.code)
        IN  /\ Len(emitted') = Len(emitted) + 1
            /\ SubSeq(emitted', 1, Len(emitted)) = emitted
            /\ Last(emitted').kind = "abs"
            /\ Last(emitted').code = entry.to_code
            /\ IF entry.invert
               THEN MathSum(Last(emitted').value, ev.value)
                        = MathSum(info.minimum, info.maximum)
               ELSE Last(emitted').value = ev.value]_vars

\* C1 on the inputs whose arithmetic fits i32 at every step: there the event
\* is handed to the sink exactly as C1 states.
C1_TranslatedUnlessOverflow ==
    [][(/\ Visiting("abs")
        /\ Head(batch).code \in DOMAIN abs_infos
        /\ ~ValueOverflows(EntryOf(Head(batch).code), abs_infos[Head(batch).code],
                           Head(batch).value)) =>
        LET ev == Head(batch)
            info == abs_infos[ev.code]
            entry == EntryOf(ev.code)
        IN  /\ emitted' = Append(emitted, [kind |-> "abs", code |-> entry.to_code,
                                           value |-> Last(emitted').value])
            /\ IF entry.invert
               THEN Last(emitted').value = info.minimum + (info.maximum - ev.value)
               ELSE Last(emitted').value = ev.value]_vars

\* C2: every key event the for loop visits is handed to the sink, unmodified.
C2_KeyPassedThrough ==
    [][Visiting("key") => emitted' = Append(emitted, Head(batch))]_vars

\* C3: an absolute-axis event whose code has no entry in the capability table
\* hands nothing to the sink and raises no error, whether or not a rule names
\* the code, and the loop goes on to the next event (or to the next poll).
C3_UnknownAxisDropped ==
    [][(Visiting("abs") /\ Head(batch).code \notin DOMAIN abs_infos) =>
        /\ emitted' = emitted
        /\ result' = "running"
        /\ batch' = Tail(batch)
        /\ pc' = IF Tail(batch) = <<>> THEN "fetch" ELSE "for"]_vars

C3_Witness ==
    /\ received # <<>>
    /\ Last(received).kind = "abs"
    /\ Last(received).code \notin DOMAIN abs_infos
    /\ Last(received).code \in DOMAIN mappings
    /\ emitted = <<>>
    /\ result = "running"
    /\ pc = "for"

\* the visited events that were handed to the sink: the absolute-axis events
\* whose code has a capability entry, but for one whose handling ended the run
\* before the emit
RECURSIVE Producing(_, _)
Producing(evs, panicked) ==
    IF evs = <<>> THEN <<>>
    ELSE LET ev == Head(evs)
             produces == /\ ev.kind = "abs"
                         /\ ev.code \in DOMAIN abs_infos
                         /\ ~(panicked /\ Len(evs) = 1)
         IN  (IF produces THEN <<ev>> ELSE <<>>) \o Producing(Tail(evs), panicked)

\* C4: the sink is handed the outputs in the order their events were received,
\* within a batch and across batches: the i-th output is the translation of
\* the i-th received event that produces one.
C4_OrderPreserved ==
    LET src == Producing(received, result = "panic") IN
    /\ Len(emitted) = Len(src)
    /\ \A i \in 1..Len(src) :
        /\ emitted[i].code = EntryOf(src[i].code).to_code
        /\ emitted[i].value =
            IF EntryOf(src[i].code).invert
            THEN WrapAdd(abs_infos[src[i].code].minimum,
                         WrapSub(abs_infos[src[i].code].maximum, src[i].value))
            ELSE src[i].value

C4_Witness ==
    /\ Len(received) >= 3
    /\ Len(emitted) = 2
    /\ emitted[1] # emitted[2]
    /\ received[2].kind = "key"
    /\ polls = 2

\* the errors parse_mappings returns
ConfigErrors == {"cannot parse mapping", "cannot parse right operand", "unknown axis"}

\* C5: in a run whose mapping string fails to parse, the process exits
\* without having opened the physical device or created the virtual device.
C5_ConfigErrorBeforeDeviceIO ==
    result \in ConfigErrors => device = "closed" /\ virt_device = <<>>

C8_EmitErrorFatal ==
    [][/\ result' = "emit error" => pc' = "done"
       /\ result = "emit error" =>
            /\ polls' = polls
            /\ received' = received
            /\ emitted' = emitted]_vars

C8_Witness ==
    /\ result = "emit error"
    /\ pc = "done"
    /\ batch # <<>>
    /\ emitted # <<>>

\* parse_mappings has returned Ok: main is past main.rs:57
Parsed ==
    \/ pc \in {"abs_infos", "fetch", "for"}
    \/ pc = "done" /\ result \in {"absinfo error", "read error", "emit error", "panic"}

\* the documented grammar: rule := source "=" ["-"] target, with known names
IsRule(s) ==
    \/ /\ Len(s) = 3
       /\ s[1] \in DOMAIN AxisCodeOf /\ s[2] = "=" /\ s[3] \in DOMAIN AxisCodeOf
    \/ /\ Len(s) = 4
       /\ s[1] \in DOMAIN AxisCodeOf /\ s[2] = "=" /\ s[3] = "-"
       /\ s[4] \in DOMAIN AxisCodeOf

\* the rules of a comma-separated list, as <<source, target, inverted>>; <<>>
\* when the string is no such list
RECURSIVE RulesOf(_)
RulesOf(s) ==
    LET one(r) == <<AxisCodeOf[r[1]], AxisCodeOf[r[Len(r)]], Len(r) = 4>>
        rest(n) == RulesOf(SubSeq(s, n + 2, Len(s)))
        list(n) == /\ Len(s) > n + 1
                   /\ s[n + 1] = ","
                   /\ IsRule(SubSeq(s, 1, n))
                   /\ rest(n) # <<>>
    IN  IF IsRule(s) THEN <<one(s)>>
        ELSE IF list(3) THEN <<one(SubSeq(s, 1, 3))>> \o rest(3)
        ELSE IF list(4) THEN <<one(SubSeq(s, 1, 4))>> \o rest(4)
        ELSE <<>>

\* C9: a comma-separated list of rules source=target or source=-target with
\* known axis names parses, and the Rule Set has one entry per distinct source
\* axis, whose target is the target the (last) rule for that source names and
\* whose invert flag is true exactly when that rule has the leading hyphen.
C9_WellFormedParses ==
    LET rules == RulesOf(args_mappings) IN
    rules # <<>> =>
        /\ result \notin ConfigErrors
        /\ pc # "parse_mappings" => Parsed
        /\ Parsed =>
            /\ DOMAIN mappings = {rules[i][1] : i \in 1..Len(rules)}
            /\ \A i \in 1..Len(rules) :
                (\A j \in (i + 1)..Len(rules) : rules[j][1] # rules[i][1]) =>
                    /\ mappings[rules[i][1]].to_code = rules[i][2]
                    /\ mappings[rules[i][1]].invert = rules[i][3]

C9_Witness ==
    /\ args_mappings = TestInput
    /\ pc = "abs_infos"
    /\ DOMAIN mappings = {ABS_X, ABS_Z}
    /\ mappings[ABS_X] = [to_code |-> ABS_X, invert |-> TRUE]
    /\ mappings[ABS_Z] = [to_code |-> ABS_RX, invert |-> FALSE]

\* C10: the empty mapping string parses, to an empty Rule Set, under which
\* every axis maps to itself, uninverted.
C10_EmptyStringParses ==
    args_mappings = <<>> =>
        /\ result \notin ConfigErrors
        /\ Parsed =>
            /\ mappings = EmptyMap
            /\ \A code \in OutputAxes \cup {ABS_THROTTLE} :
                GetMapping(mappings, code) = [to_code |-> code, invert |-> FALSE]

\* the rules of a mapping string: the pieces between its commas
RulePieces(s) == Split(s, ",")

\* the number of "=" in a piece
CountEq(p) == Cardinality({i \in 1..Len(p) : p[i] = "="})

\* a target-spec of the documented grammar: axis-name, or "-" axis-name
IsTargetSpec(t) ==
    \/ Len(t) = 1 /\ t[1] \in DOMAIN AxisCodeOf
    \/ Len(t) = 2 /\ t[1] = "-" /\ t[2] \in DOMAIN AxisCodeOf

\* C11: the parser rejects every target-spec that is neither axis-name nor
\* "-" axis-name: whenever the string parses, the text after the "=" of each
\* of its rules is of one of these two forms.
C11_MalformedTargetRejected ==
    Parsed =>
        \A i \in 1..Len(RulePieces(args_mappings)) :
            LET parts == Split(RulePieces(args_mappings)[i], "=") IN
            Len(parts) = 2 /\ IsTargetSpec(parts[2])

\* C11 for more than one hyphen: such a target-spec is rejected.
C11_TwoHyphensRejected ==
    (\E i \in 1..Len(RulePieces(args_mappings)) :
        LET p == RulePieces(args_mappings)[i] IN
        Cardinality({k \in 1..Len(p) : p[k] = "-"}) > 1) => ~Parsed

\* C12: a rule with no "=" or with more than one makes the parse of the whole
\* string fail, wherever in the string the rule stands.
C12_ExactlyOneEquals ==
    (\E i \in 1..Len(RulePieces(args_mappings)) :
        CountEq(RulePieces(args_mappings)[i]) # 1) =>
        /\ ~Parsed
        /\ mappings = EmptyMap
        /\ pc # "parse_mappings" => pc = "done" /\ result \in ConfigErrors

C12_Witness ==
    /\ args_mappings = <<"ABS_X", "=", "ABS_Z", ",", "ABS_Z", "=", "=">>
    /\ pc = "done"
    /\ result = "cannot parse mapping"

\* C13: when a source axis appears in more than one rule, the Rule Set holds
\* for it the entry of the rule that appears last, and the Rule Set has
\* exactly one entry per distinct source axis.
C13_LastWriteWins ==
    LET rules == RulesOf(args_mappings)
        sources == {rules[i][1] : i \in 1..Len(rules)}
        last(src) == CHOOSE j \in 1..Len(rules) :
                        /\ rules[j][1] = src
                        /\ \A k \in (j + 1)..Len(rules) : rules[k][1] # src
    IN  (rules # <<>> /\ Parsed) =>
            /\ Cardinality(DOMAIN mappings) = Cardinality(sources)
            /\ \A src \in sources :
                /\ src \in DOMAIN mappings
                /\ mappings[src] = [to_code |-> rules[last(src)][2],
                                    invert |-> rules[last(src)][3]]

C13_Witness ==
    /\ args_mappings = <<"ABS_X", "=", "ABS_Z", ",", "ABS_X", "=", "ABS_X">>
    /\ Parsed
    /\ DOMAIN mappings = {ABS_X}
    /\ mappings[ABS_X] = [to_code |-> ABS_X, invert |-> FALSE]

\* C14: each of the eight output axes is declared on the virtual device with
\* the physical axis's value, minimum, maximum and resolution and with fuzz
\* and flat 0 when the physical device reports the axis, and with value 128,
\* minimum 0, maximum 256, fuzz 0, flat 0, resolution 1 when it does not.
C14_DeclaredAxisInfo ==
    \A i \in 1..Len(virt_device) :
        /\ DOMAIN virt_device[i].axes =
               {ABS_X, ABS_Y, ABS_Z, ABS_RX, ABS_RY, ABS_RZ, ABS_HAT0X, ABS_HAT0Y}
        /\ \A code \in DOMAIN virt_device[i].axes :
            virt_device[i].axes[code] =
                IF code \in DOMAIN device_absinfo
                THEN [value |-> device_absinfo[code].value,
                      minimum |-> device_absinfo[code].minimum,
                      maximum |-> device_absinfo[code].maximum,
                      fuzz |-> 0, flat |-> 0,
                      resolution |-> device_absinfo[code].resolution]
                ELSE [value |-> 128, minimum |-> 0, maximum |-> 256,
                      fuzz |-> 0, flat |-> 0, resolution |-> 1]

C14_Witness ==
    /\ Len(virt_device) = 1
    /\ device_absinfo[ABS_X].fuzz = 3
    /\ device_absinfo[ABS_X].flat = 15
    /\ virt_device[1].axes[ABS_X].maximum = 255
    /\ virt_device[1].axes[ABS_X].fuzz = 0
    /\ ABS_Y \notin DOMAIN device_absinfo
    /\ virt_device[1].axes[ABS_Y].maximum = 256

\* C16: the virtual device is created exactly once, before the first poll,
\* and is never replaced: no poll is made and no event is handed to the sink
\* or visited before it exists, and once created the handle stays the same.
C16_VirtualDeviceOnce ==
    [][/\ Len(virt_device') <= 1
       /\ (polls' > 0 \/ emitted' # <<>> \/ received' # <<>>) => Len(virt_device') = 1
       /\ virt_device # <<>> => virt_device' = virt_device]_vars

C16_Witness ==
    /\ Len(virt_device) = 1
    /\ polls = 2
    /\ Len(emitted) >= 2

\* C17: a synchronization marker, and an event that is neither a key event
\* nor an absolute-axis event, leaves the events handed to the sink unchanged.
C17_SyncAndOtherNotEmitted ==
    [][(Visiting("sync") \/ Visiting("other")) =>
        /\ emitted' = emitted
        /\ result' = result]_vars

C17_Witness ==
    /\ Len(received) = 3
    /\ received[1].kind = "abs"
    /\ received[2].kind = "sync"
    /\ received[3].kind = "other"
    /\ Len(emitted) = 1
    /\ result = "running"

\* C18: every absolute-axis event handed to the virtual device is on an axis
\* the virtual device declared when it was created.
C18_EmittedAxisDeclared ==
    \A i \in 1..Len(emitted) :
        /\ virt_device # <<>>
        /\ emitted[i].code \in DOMAIN virt_device[1].axes

\* C19: for an inverted mapping and a raw value inside the source axis's
\* range, no step of minimum + (maximum - raw_value) leaves the i32 range and
\* the value handed to the sink lies inside the source axis's range.
C19_InversionStaysInRange ==
    [][(/\ Visiting("abs")
        /\ Head(batch).code \in DOMAIN abs_infos
        /\ EntryOf(Head(batch).code).invert
        /\ abs_infos[Head(batch).code].minimum <= Head(batch).value
        /\ Head(batch).value <= abs_infos[Head(batch).code].maximum) =>
        LET info == abs_infos[Head(batch).code]
            raw == Head(batch).value
        IN  /\ ~SubOverflows(info.maximum, raw)
            /\ ~AddOverflows(info.minimum, WrapSub(info.maximum, raw))
            /\ result' # "panic"
            /\ Len(emitted') = Len(emitted) + 1
            /\ info.minimum <= Last(emitted').value
            /\ Last(emitted').value <= info.maximum]_vars

\* C19 without the arithmetic: whenever an event is handed to the sink for an
\* inverted mapping and an in-range raw value, its value is inside the range.
C19_EmittedInsideRange ==
    [][(/\ Visiting("abs")
        /\ Head(batch).code \in DOMAIN abs_infos
        /\ EntryOf(Head(batch).code).invert
        /\ abs_infos[Head(batch).code].minimum <= Head(batch).value
        /\ Head(batch).value <= abs_infos[Head(batch).code].maximum
        /\ emitted' # emitted) =>
        /\ abs_infos[Head(batch).code].minimum <= Last(emitted').value
        /\ Last(emitted').value <= abs_infos[Head(batch).code].maximum]_vars

\* a rule of the string fails to parse
HasBadRule(s) == \E i \in 1..Len(RulePieces(s)) : ~parse_mapping(RulePieces(s)[i]).ok

\* C20: when any one rule of the string fails to parse, parse_mappings returns
\* an error and no Rule Set: main never holds a Rule Set, never reaches the
\* event loop and never polls or emits.
C20_ParseAllOrNothing ==
    HasBadRule(args_mappings) =>
        /\ mappings = EmptyMap
        /\ ~Parsed
        /\ pc \notin {"abs_infos", "fetch", "for"}
        /\ polls = 0 /\ received = <<>> /\ emitted = <<>>

C20_Witness ==
    /\ args_mappings = <<"ABS_X", "=", "ABS_Z", ",", "ABS_Z">>
    /\ parse_mapping(<<"ABS_X", "=", "ABS_Z">>).ok
    /\ pc = "done"
    /\ result = "cannot parse mapping"
    /\ mappings = EmptyMap

\* C15: with a fixed axis info of minimum m and maximum M, the inversion
\* formula applied to a value v in [m, M] and then to its own result gives v
\* back: both applications produce a value and the second one is v.
C15_InversionInvolution ==
    /\ Len(emitted) = Len(received)
    /\ Len(emitted) = 2 => emitted[2].value = received[1].value

\* C15 where both applications produce a value: the second value is the
\* original one, in wrapping arithmetic too.
C15_InvolutionUnlessPanic ==
    Len(emitted) = 2 =>
        /\ received[2].value = emitted[1].value
        /\ emitted[2].value = received[1].value

====
